---- MODULE Spec2Model ----
(***************************************************************************)
(* Model of mezura's run pipeline (src/src/lib.rs): the Run Coordinator    *)
(* `run`, the shared pipeline state it creates, the Directory Walker       *)
(* (producer), the Worker Pool (consumer threads) and the domain           *)
(* accumulators ExtensionContentInfo / ExtensionMetadata / FileStats.      *)
(*                                                                         *)
(* producer.rs, consumer.rs, file_parser.rs and putils are declared by     *)
(* lib.rs (`mod producer; mod consumer; ...`) but their text is not part   *)
(* of src/; the walker, the worker loop and the classifier's result are   *)
(* modelled from spec.md sections 4.1 - 4.3.                               *)
(***************************************************************************)
EXTENDS Integers, Sequences, FiniteSets, TLC

(***************************************************************************)
(* Bounds of the model.                                                    *)
(***************************************************************************)
\* config.threads: the number of parser threads run() spawns
Threads == 2
\* the number of directory entries the Walker meets in the tree
MaxFiles == 3
\* the number of FileStats merged in the order-of-merging runs
MaxMerge == 3
\* the number of tokens of a file given to the classifier
MaxTokens == 5
\* the largest count of a list given to get_percentages
MaxCount == 9
\* the largest entry of a list given to normalize_to_NUM_OF_VERTICALS directly
MaxBar == 20

(***************************************************************************)
(* Inputs of run(): the Extension Catalog and the Configuration.           *)
(***************************************************************************)
\* extensions_map: extension name -> Extension; an Option is the sequence of
\* its value, <<>> for None.  x has block comments, y has none.
ExtensionsMap ==
    [x |-> [name |-> "x",
            string_symbols |-> << "\"", "'" >>,
            comment_symbol |-> "//",
            mutliline_comment_start_symbol |-> << "/*" >>,
            mutliline_comment_end_symbol |-> << "*/" >>,
            keywords |-> << [descriptive_name |-> "branches", aliases |-> <<"if">>],
                            [descriptive_name |-> "loops", aliases |-> <<"for", "while">>] >>],
     y |-> [name |-> "y",
            string_symbols |-> << "\"" >>,
            comment_symbol |-> "//",
            mutliline_comment_start_symbol |-> << >>,
            mutliline_comment_end_symbol |-> << >>,
            keywords |-> << [descriptive_name |-> "branches", aliases |-> <<"if">>] >>]]

Exts == DOMAIN ExtensionsMap

\* the extension of a directory entry that matches no cataloged extension
NoExt == "none"

\* the tree the Walker meets: its i-th directory entry has 10 * i bytes and
\* i + 1 lines, i of them code, and holds each keyword of its extension
\* i or i - 1 times; what varies is each entry's extension and whether it
\* can be read
FileSize(id) == 10 * id

\* values config.extensions_of_interest can take
ExtensionsOfInterestChoices == { <<>>, <<"x", "y">> }

\* values instant.elapsed().as_millis() can take
DurationChoices == {999, 1000, 1001}

Workers == 0 .. (Threads - 1)
\* the owner of a mutex nobody holds: an id no worker has
NoOwner == Threads
FileIds == 1 .. MaxFiles
NoPath == [id |-> 0, ext |-> NoExt]

VARIABLES
    \* shared pipeline state created by run()
    files,                    \* files_ref: the Work Queue (LinkedList<String>)
    files_lock,               \* owner of the Mutex around files
    faulty_files,             \* faulty_files_ref: Vec<(path, error, bytes)>
    finish_condition,         \* finish_condition_ref: AtomicBool
    extensions_content_info,  \* extensions_content_info_ref: ext -> ExtensionContentInfo
    extensions_metadata,      \* extensions_metadata: ext -> ExtensionMetadata
    \* the coordinator (the thread executing run())
    c_pc,                     \* position in run()
    handles,                  \* JoinHandles pushed by the spawn loop
    joined,                   \* number of handles already joined
    total_files_num,
    relevant_files_num,
    parsing_duration_millis,
    outcome,                  \* what run() returned
    extensions_of_interest,   \* config.extensions_of_interest
    \* the worker threads
    w_pc,
    w_path,                   \* the path a worker popped
    \* history
    pushed,                   \* the paths the Walker pushed, in order
    pop_count,                \* file id -> times handed to a worker
    merge_count,              \* file id -> times merged into extensions_content_info
    rendered,                 \* calls of format_and_print_results
    \* add_file_stats applied to one list of FileStats in two orders
    m_seq,                    \* the FileStats
    m_perm,                   \* a permutation of their indices
    m_i,                      \* how many have been merged
    m_a,                      \* the ExtensionContentInfo merged in list order
    m_b,                      \* the ExtensionContentInfo merged in permuted order
    \* the classifier on one file
    cl_ext,                   \* the file's extension
    cl_read,                  \* the tokens read so far
    cl_mode,                  \* Normal, InString, InLineComment or InBlockComment
    cl_start_mode,            \* the mode in which the current line started
    cl_has_code,              \* a code token was seen on the current line
    cl_delim,                 \* the delimiter that opened the string being read
    cl_escaped,               \* the last token read escapes the next one
    cl_stats,                 \* the file's FileStats
    cl_done,                  \* the end of the file was reached
    \* the bars of the overview
    ov_pc,                    \* "numbers", "percentages", "direct" or "verticals"
    ov_numbers,               \* the counts given to get_percentages
    ov_percentages,           \* the percentages, in tenths of a percent
    ov_raw,                   \* the bars before normalize_to_NUM_OF_VERTICALS
    ov_verticals,             \* the bars returned
    ov_panicked,              \* a subtraction went below zero
    \* the maps of the overview
    fo_pc,                    \* "maps", "sorted" or "overview"
    fo_content0,              \* content_info_map as print_visual_overview gets it
    fo_meta0,                 \* extensions_metadata_map as print_visual_overview gets it
    fo_names,                 \* sorted_extension_vec
    fo_content,               \* content_info_map
    fo_meta                   \* extensions_metadata_map

shared == << files, files_lock, faulty_files, finish_condition,
             extensions_content_info, extensions_metadata >>
coord == << c_pc, handles, joined, total_files_num, relevant_files_num,
            parsing_duration_millis, outcome, extensions_of_interest >>
workers == << w_pc, w_path >>
hist == << pushed, pop_count, merge_count, rendered >>
mvars == << m_seq, m_perm, m_i, m_a, m_b >>
clvars == << cl_ext, cl_read, cl_mode, cl_start_mode, cl_has_code, cl_delim, cl_escaped,
            cl_stats, cl_done >>
fovars == << fo_pc, fo_content0, fo_meta0, fo_names, fo_content, fo_meta >>
ovvars == << ov_pc, ov_numbers, ov_percentages, ov_raw, ov_verticals, ov_panicked, fovars >>
vars == << shared, coord, workers, hist, mvars, clvars, ovvars >>

(***************************************************************************)
(* domain: the accumulators                                                *)
(***************************************************************************)
KeywordNames(keywords) == { keywords[i].descriptive_name : i \in 1 .. Len(keywords) }

\* fn get_keyword_stats_map(extension)
get_keyword_stats_map(extension) ==
    [k \in KeywordNames(extension.keywords) |-> 0]

\* a bug get_stats_map could have: keyed by the first alias
get_stats_map_by_alias(keywords) ==
    [k \in { keywords[i].aliases[1] : i \in 1 .. Len(keywords) } |-> 0]

\* fn get_stats_map(keywords)
get_stats_map(keywords) ==
    [k \in KeywordNames(keywords) |-> 0]

\* impl From<&Extension> for ExtensionContentInfo
ExtensionContentInfoFrom(ext) ==
    [lines |-> 0, code_lines |-> 0, keyword_occurences |-> get_keyword_stats_map(ext)]

\* FileStats::default(keywords)
FileStatsDefault(keywords) ==
    [lines |-> 0, code_lines |-> 0, keyword_occurences |-> get_stats_map(keywords)]

\* ExtensionMetadata::default()
ExtensionMetadataDefault == [files |-> 0, bytes |-> 0]

\* the keyword loop of add_file_stats: get_mut(k).unwrap() on every key of other
AddKeywords(mine, theirs) ==
    [k \in DOMAIN mine |-> IF k \in DOMAIN theirs THEN mine[k] + theirs[k] ELSE mine[k]]

\* a bug add_file_stats could have: the keyword loop left out
add_file_stats_no_keywords(self, other) ==
    [lines |-> self.lines + other.lines,
     code_lines |-> self.code_lines + other.code_lines,
     keyword_occurences |-> self.keyword_occurences]

\* a bug add_file_stats could have: lines assigned instead of added
add_file_stats_assign(self, other) ==
    [lines |-> other.lines,
     code_lines |-> self.code_lines + other.code_lines,
     keyword_occurences |-> AddKeywords(self.keyword_occurences, other.keyword_occurences)]

\* ExtensionContentInfo::add_file_stats(&mut self, other: FileStats)
add_file_stats(self, other) ==
    [lines |-> self.lines + other.lines,
     code_lines |-> self.code_lines + other.code_lines,
     keyword_occurences |-> AddKeywords(self.keyword_occurences, other.keyword_occurences)]

\* a bug add_file_meta could have: the file is not counted
add_file_meta_bytes_only(self, bytes) ==
    [files |-> self.files, bytes |-> self.bytes + bytes]

\* a bug the reading of string_symbols could have: only the first is used
string_symbols_first(ext) ==
    SubSeq(ext.string_symbols, 1, 1)

\* Extension.string_symbols
string_symbols(ext) ==
    ext.string_symbols

\* a bug supports_multiline_comments could have: is_none for is_some
supports_multiline_comments_inverted(ext) ==
    ext.mutliline_comment_start_symbol = << >>

\* Extension::supports_multiline_comments(&self)
supports_multiline_comments(ext) ==
    ext.mutliline_comment_start_symbol # << >>

\* a bug incr_lines could have
incr_lines_code(stats) ==
    [stats EXCEPT !.code_lines = @ + 1]

\* FileStats::incr_lines(&mut self)
incr_lines(stats) ==
    [stats EXCEPT !.lines = @ + 1]

\* a bug incr_code_lines could have
incr_code_lines_twice(stats) ==
    [stats EXCEPT !.code_lines = @ + 2]

\* FileStats::incr_code_lines(&mut self)
incr_code_lines(stats) ==
    [stats EXCEPT !.code_lines = @ + 1]

\* a bug incr_keyword could have
incr_keyword_twice(stats, keyword_name) ==
    [stats EXCEPT !.keyword_occurences[keyword_name] = @ + 2]

\* FileStats::incr_keyword(&mut self, keyword_name)
incr_keyword(stats, keyword_name) ==
    [stats EXCEPT !.keyword_occurences[keyword_name] = @ + 1]

\* ExtensionMetadata::add_file_meta(&mut self, bytes)
add_file_meta(self, bytes) ==
    [files |-> self.files + 1, bytes |-> self.bytes + bytes]

\* fn make_extension_stats(extensions_map)
make_extension_stats(extensions_map) ==
    [key \in DOMAIN extensions_map |-> ExtensionContentInfoFrom(extensions_map[key])]

\* fn make_extension_metadata(extension_map)
make_extension_metadata(extension_map) ==
    [name \in DOMAIN extension_map |-> ExtensionMetadataDefault]


(***************************************************************************)
(* run(): helpers of the coordinator                                       *)
(***************************************************************************)
\* utils::get_file_extension(path): the extension component of a path, None
\* when the path has none
get_file_extension(path) ==
    IF path.ext = NoExt THEN "None" ELSE path.ext

\* a bug remove_faulty_files_stats could have: the bytes are left in
remove_one_faulty_file_keep_bytes(map, file) ==
    LET extension == get_file_extension(file.path)
    IN  IF extension = "None"
        THEN map
        ELSE [map EXCEPT ![extension] =
                 [files |-> @.files - 1, bytes |-> @.bytes]]

\* a bug remove_faulty_files_stats could have: the faulty file is left in
remove_one_faulty_file_skipped(map, file) == map

\* the body of the loop of remove_faulty_files_stats
remove_one_faulty_file(map, file) ==
    LET extension == get_file_extension(file.path)
    IN  IF extension = "None"
        THEN map
        ELSE [map EXCEPT ![extension] =
                 [files |-> @.files - 1, bytes |-> @.bytes - file.bytes]]

\* fn remove_faulty_files_stats(faulty_files_ref, extensions_metadata_map)
RECURSIVE remove_faulty_files_stats(_, _)
remove_faulty_files_stats(faulty, map) ==
    IF faulty = <<>>
    THEN map
    ELSE remove_faulty_files_stats(Tail(faulty), remove_one_faulty_file(map, Head(faulty)))

\* [String]::join(sep), a string being the sequence of its pieces
RECURSIVE join(_, _)
join(strs, sep) ==
    IF strs = <<>> THEN <<>>
    ELSE IF Len(strs) = 1 THEN << strs[1] >>
    ELSE << strs[1], sep >> \o join(Tail(strs), sep)

\* fn get_activated_extensions_as_str(config)
get_activated_extensions_as_str(of_interest) ==
    IF of_interest = <<>>
    THEN <<>>
    ELSE << "\n(Activated extensions: " >> \o join(of_interest, ", ") \o << ")" >>

RECURSIVE SumLines(_, _)
SumLines(map, keys) ==
    IF keys = {} THEN 0
    ELSE LET k == CHOOSE k \in keys : TRUE
         IN  map[k].lines + SumLines(map, keys \ {k})

NoMetrics == [some |-> FALSE, files_per_sec |-> 0, lines_per_sec |-> 0]

\* a bug the duration test could have: `<` for `<=`
generate_metrics_from_one_sec(millis, relevant_files, content_info_map) ==
    IF millis < 1000
    THEN NoMetrics
    ELSE [some |-> TRUE,
          files_per_sec |-> (relevant_files * 1000) \div millis,
          lines_per_sec |-> (SumLines(content_info_map, DOMAIN content_info_map) * 1000) \div millis]

\* fn generate_metrics_if_parsing_took_more_than_one_sec(millis, relevant_files, map)
\* (x as f32 / (millis as f32 / 1000f32)) as usize, in integers
generate_metrics_if_parsing_took_more_than_one_sec(millis, relevant_files, content_info_map) ==
    IF millis <= 1000
    THEN NoMetrics
    ELSE [some |-> TRUE,
          files_per_sec |-> (relevant_files * 1000) \div millis,
          lines_per_sec |-> (SumLines(content_info_map, DOMAIN content_info_map) * 1000) \div millis]

\* a bug remove_extensions_with_0_files could have: the test inverted
remove_extensions_with_files(map, metadata_map) ==
    [e \in { k \in DOMAIN metadata_map : metadata_map[k].files = 0 } |-> map[e]]

\* result_printer::remove_extensions_with_0_files, on one of the two maps
remove_extensions_with_0_files(map, metadata_map) ==
    [e \in { k \in DOMAIN metadata_map : metadata_map[k].files # 0 } |-> map[e]]

NoOutcome == [kind |-> "none", detail |-> <<>>, metrics |-> NoMetrics]
ErrNoRelevantFiles(str) == [kind |-> "NoRelevantFiles", detail |-> str, metrics |-> NoMetrics]
ErrAllAreFaultyFiles == [kind |-> "AllAreFaultyFiles", detail |-> <<>>, metrics |-> NoMetrics]
OkMetrics(m) == [kind |-> "Ok", detail |-> <<>>, metrics |-> m]

\* a bug the initial flag could have
FinishConditionInitSet == TRUE

\* AtomicBool::new(false)
FinishConditionInit == FALSE

\* a bug the spawn loop could have: the workers are handed a flag of their
\* own, which nobody stores to
WorkersFlagNotShared(flag) == FinishConditionInit

\* finish_condition_ref.clone(): the workers read the flag the walker stores to
WorkersFlag(flag) == flag

\* a bug the join loop could have: it stops after the first handle
JoinLoopStopsEarly(n, all) == n >= 1

\* `for h in handles { h.join() }` has gone through every handle
JoinLoopDone(n, all) == n = Len(all)

\* a queue shared without mutual exclusion
MutexNeverHeld(owner) == TRUE

\* Mutex::lock succeeds only when no thread holds the mutex
MutexAvailable(owner) == owner = NoOwner

\* a bug the relevant-files test could have
NoRelevantOffByOne(relevant) == relevant <= 1

\* `if relevant_files_num == 0`
IsNoRelevant(relevant) == relevant = 0

\* another bug the all-faulty test could have: it never holds
IsAllFaultyNever(faulty_len, relevant) == faulty_len > relevant

\* a bug the all-faulty test could have
IsAllFaultyAny(faulty_len, relevant) == faulty_len >= 1

\* `if faulty_files_ref.lock().unwrap().len() == relevant_files_num`
IsAllFaulty(faulty_len, relevant) == faulty_len = relevant

(***************************************************************************)
(* file_parser::parse_file: the results it can hand to a worker            *)
(***************************************************************************)
\* Ok(FileStats): FileStats::default(keywords) after the incr_lines,
\* incr_code_lines and incr_keyword calls the file's content causes
ParseStats(path) ==
    LET d == FileStatsDefault(ExtensionsMap[path.ext].keywords)
    IN  [lines |-> d.lines + path.id + 1,
         code_lines |-> d.code_lines + path.id,
         keyword_occurences |->
             [k \in DOMAIN d.keyword_occurences |->
                 d.keyword_occurences[k] + (IF k = "loops" THEN path.id - 1 ELSE path.id)]]

\* Err(e): the error text of a file that cannot be read or decoded
ParseError == "unreadable"

(***************************************************************************)
(* Init: the state after the `let`s of run(), lines 35 - 41                *)
(***************************************************************************)
PipelineInit ==
    /\ files = <<>>
    /\ files_lock = NoOwner
    /\ faulty_files = <<>>
    /\ finish_condition = FinishConditionInit
    /\ extensions_content_info = make_extension_stats(ExtensionsMap)
    /\ extensions_metadata = make_extension_metadata(ExtensionsMap)
    /\ c_pc = "spawn"
    /\ handles = <<>>
    /\ joined = 0
    /\ total_files_num = 0
    /\ relevant_files_num = 0
    /\ parsing_duration_millis = 0
    /\ outcome = NoOutcome
    /\ extensions_of_interest \in ExtensionsOfInterestChoices
    /\ w_pc = [w \in Workers |-> "unspawned"]
    /\ w_path = [w \in Workers |-> NoPath]
    /\ pushed = <<>>
    /\ pop_count = [i \in FileIds |-> 0]
    /\ merge_count = [i \in FileIds |-> 0]
    /\ rendered = 0

\* the merge variables while the pipeline runs
MergeIdle ==
    /\ m_seq = <<>>
    /\ m_perm = <<>>
    /\ m_i = 0
    /\ m_a = ExtensionContentInfoFrom(ExtensionsMap["x"])
    /\ m_b = ExtensionContentInfoFrom(ExtensionsMap["x"])

\* no string is open
NoDelim == ""

\* the classifier variables while the pipeline runs
ClassifyIdle ==
    /\ cl_ext = "x"
    /\ cl_read = <<>>
    /\ cl_mode = "Normal"
    /\ cl_start_mode = "Normal"
    /\ cl_has_code = FALSE
    /\ cl_delim = NoDelim
    /\ cl_escaped = FALSE
    /\ cl_stats = FileStatsDefault(ExtensionsMap["x"].keywords)
    /\ cl_done = FALSE

\* the maps of the overview while nothing is rendered
FoldIdle ==
    /\ fo_pc = "idle"
    /\ fo_content0 = << >>
    /\ fo_meta0 = << >>
    /\ fo_names = << >>
    /\ fo_content = << >>
    /\ fo_meta = << >>

\* the overview variables while nothing is rendered
OverviewIdle ==
    /\ FoldIdle
    /\ ov_pc = "idle"
    /\ ov_numbers = <<>>
    /\ ov_percentages = <<>>
    /\ ov_raw = <<>>
    /\ ov_verticals = <<>>
    /\ ov_panicked = FALSE

Init ==
    /\ PipelineInit
    /\ MergeIdle
    /\ ClassifyIdle
    /\ OverviewIdle


(***************************************************************************)
(* run(), lines 44 - 51: the spawn loop.  A spawned thread starts running. *)
(***************************************************************************)
Spawn ==
    /\ c_pc = "spawn"
    /\ Len(handles) < Threads
    /\ LET i == Len(handles)
       IN  /\ handles' = Append(handles, i)
           /\ w_pc' = [w_pc EXCEPT ![i] = "lock"]
           /\ c_pc' = IF i + 1 = Threads THEN "walk" ELSE "spawn"
    /\ UNCHANGED << shared, joined, total_files_num, relevant_files_num,
                    parsing_duration_millis, outcome, extensions_of_interest,
                    w_path, hist >>
    /\ UNCHANGED << mvars, clvars, ovvars >>

(***************************************************************************)
(* producer::add_relevant_files, called by run() at line 56 and executed   *)
(* by the coordinator's thread (spec.md 4.1).                              *)
(***************************************************************************)
\* a regular file with a cataloged extension: its metadata is recorded and
\* its path pushed under the queue's lock
WalkRelevantFile ==
    /\ c_pc = "walk"
    /\ total_files_num < MaxFiles
    /\ MutexAvailable(files_lock)
    /\ \E e \in Exts :
         LET path == [id |-> total_files_num + 1, ext |-> e]
         IN  /\ extensions_metadata' =
                    [extensions_metadata EXCEPT ![e] = add_file_meta(@, FileSize(path.id))]
             /\ files' = Append(files, path)
             /\ pushed' = Append(pushed, path)
    /\ total_files_num' = total_files_num + 1
    /\ relevant_files_num' = relevant_files_num + 1
    /\ UNCHANGED << files_lock, faulty_files, finish_condition, extensions_content_info,
                    c_pc, handles, joined, parsing_duration_millis, outcome,
                    extensions_of_interest, workers, pop_count, merge_count, rendered >>
    /\ UNCHANGED << mvars, clvars, ovvars >>

\* a file with no cataloged extension: only the total counter moves
WalkOtherFile ==
    /\ c_pc = "walk"
    /\ total_files_num < MaxFiles
    /\ total_files_num' = total_files_num + 1
    /\ UNCHANGED << shared, c_pc, handles, joined, relevant_files_num,
                    parsing_duration_millis, outcome, extensions_of_interest,
                    workers, hist >>
    /\ UNCHANGED << mvars, clvars, ovvars >>

\* the tree is exhausted: the completion signal is stored and the walker returns
WalkFinish ==
    /\ c_pc = "walk"
    /\ finish_condition' = TRUE
    /\ c_pc' = "walked"
    /\ UNCHANGED << files, files_lock, faulty_files, extensions_content_info,
                    extensions_metadata, handles, joined, total_files_num,
                    relevant_files_num, parsing_duration_millis, outcome,
                    extensions_of_interest, workers, hist >>
    /\ UNCHANGED << mvars, clvars, ovvars >>

(***************************************************************************)
(* consumer::start_parser_thread: the loop of one worker (spec.md 4.2).    *)
(***************************************************************************)
\* lock the queue and look at its front
W_Front(w) ==
    /\ w_pc[w] = "lock"
    /\ MutexAvailable(files_lock)
    /\ files_lock' = w
    /\ IF files # <<>>
       THEN /\ w_path' = [w_path EXCEPT ![w] = Head(files)]
            /\ w_pc' = [w_pc EXCEPT ![w] = "unlink"]
       ELSE /\ w_path' = w_path
            /\ w_pc' = [w_pc EXCEPT ![w] = "check"]
    /\ UNCHANGED << files, faulty_files, finish_condition, extensions_content_info,
                    extensions_metadata, coord, hist >>
    /\ UNCHANGED << mvars, clvars, ovvars >>

\* found: the front is taken off the queue and the lock released
W_Unlink(w) ==
    /\ w_pc[w] = "unlink"
    /\ files' = IF files = <<>> THEN <<>> ELSE Tail(files)
    /\ files_lock' = NoOwner
    /\ pop_count' = [pop_count EXCEPT ![w_path[w].id] = @ + 1]
    /\ w_pc' = [w_pc EXCEPT ![w] = "parse"]
    /\ UNCHANGED << faulty_files, finish_condition, extensions_content_info,
                    extensions_metadata, coord, w_path,
                    pushed, merge_count, rendered >>
    /\ UNCHANGED << mvars, clvars, ovvars >>

\* empty: the completion signal decides between terminating and retrying
W_Check(w) ==
    /\ w_pc[w] = "check"
    /\ files_lock' = NoOwner
    /\ w_pc' = [w_pc EXCEPT ![w] = IF WorkersFlag(finish_condition) THEN "done" ELSE "lock"]
    /\ UNCHANGED << files, faulty_files, finish_condition, extensions_content_info,
                    extensions_metadata, coord, w_path, hist >>
    /\ UNCHANGED << mvars, clvars, ovvars >>

\* parse_file gave Ok(x): x is merged into the extension's
\* ExtensionContentInfo under the map's lock
W_ClassifyOk(w) ==
    /\ w_pc[w] = "parse"
    /\ extensions_content_info' =
           [extensions_content_info EXCEPT ![w_path[w].ext] =
               add_file_stats(@, ParseStats(w_path[w]))]
    /\ merge_count' = [merge_count EXCEPT ![w_path[w].id] = @ + 1]
    /\ w_pc' = [w_pc EXCEPT ![w] = "lock"]
    /\ w_path' = [w_path EXCEPT ![w] = NoPath]
    /\ UNCHANGED << files, files_lock, faulty_files, finish_condition,
                    extensions_metadata, coord, pushed, pop_count, rendered >>
    /\ UNCHANGED << mvars, clvars, ovvars >>

\* parse_file gave Err(x): a FaultyFileRecord is pushed under the faulty
\* list's lock
W_ClassifyErr(w) ==
    /\ w_pc[w] = "parse"
    /\ faulty_files' = Append(faulty_files,
           [path |-> w_path[w], error |-> ParseError, bytes |-> FileSize(w_path[w].id)])
    /\ w_pc' = [w_pc EXCEPT ![w] = "lock"]
    /\ w_path' = [w_path EXCEPT ![w] = NoPath]
    /\ UNCHANGED << files, files_lock, finish_condition, extensions_content_info,
                    extensions_metadata, coord, hist >>
    /\ UNCHANGED << mvars, clvars, ovvars >>

(***************************************************************************)
(* run(), lines 57 - 85                                                    *)
(***************************************************************************)
\* lines 57 - 59
CheckRelevant ==
    /\ c_pc = "walked"
    /\ IF IsNoRelevant(relevant_files_num)
       THEN /\ outcome' = ErrNoRelevantFiles(
                              get_activated_extensions_as_str(extensions_of_interest))
            /\ c_pc' = "returned"
       ELSE /\ outcome' = outcome
            /\ c_pc' = "join"
    /\ UNCHANGED << shared, handles, joined, total_files_num, relevant_files_num,
                    parsing_duration_millis, extensions_of_interest, workers, hist >>
    /\ UNCHANGED << mvars, clvars, ovvars >>

\* lines 63 - 65: h.join() returns once that thread has ended
Join ==
    /\ c_pc = "join"
    /\ ~JoinLoopDone(joined, handles)
    /\ joined < Len(handles)
    /\ w_pc[handles[joined + 1]] = "done"
    /\ joined' = joined + 1
    /\ UNCHANGED << shared, c_pc, handles, total_files_num, relevant_files_num,
                    parsing_duration_millis, outcome, extensions_of_interest,
                    workers, hist >>
    /\ UNCHANGED << mvars, clvars, ovvars >>

\* line 67
MeasureDuration ==
    /\ c_pc = "join"
    /\ JoinLoopDone(joined, handles)
    /\ parsing_duration_millis' \in DurationChoices
    /\ c_pc' = "joined"
    /\ UNCHANGED << shared, handles, joined, total_files_num, relevant_files_num,
                    outcome, extensions_of_interest, workers, hist >>
    /\ UNCHANGED << mvars, clvars, ovvars >>

\* lines 69 - 73
CheckAllFaulty ==
    /\ c_pc = "joined"
    /\ IF IsAllFaulty(Len(faulty_files), relevant_files_num)
       THEN /\ outcome' = ErrAllAreFaultyFiles
            /\ c_pc' = "returned"
       ELSE /\ outcome' = outcome
            /\ c_pc' = "correct"
    /\ UNCHANGED << shared, handles, joined, total_files_num, relevant_files_num,
                    parsing_duration_millis, extensions_of_interest, workers, hist >>
    /\ UNCHANGED << mvars, clvars, ovvars >>

\* line 75
RemoveFaulty ==
    /\ c_pc = "correct"
    /\ extensions_metadata' = remove_faulty_files_stats(faulty_files, extensions_metadata)
    /\ c_pc' = "render"
    /\ UNCHANGED << files, files_lock, faulty_files, finish_condition,
                    extensions_content_info, handles, joined, total_files_num,
                    relevant_files_num, parsing_duration_millis, outcome,
                    extensions_of_interest, workers, hist >>
    /\ UNCHANGED << mvars, clvars, ovvars >>

\* lines 77 - 85: the metrics, the hand-off to result_printer, Ok(metrics)
Render ==
    /\ c_pc = "render"
    /\ outcome' = OkMetrics(generate_metrics_if_parsing_took_more_than_one_sec(
                      parsing_duration_millis, relevant_files_num, extensions_content_info))
    /\ extensions_content_info' =
           remove_extensions_with_0_files(extensions_content_info, extensions_metadata)
    /\ extensions_metadata' =
           remove_extensions_with_0_files(extensions_metadata, extensions_metadata)
    /\ rendered' = rendered + 1
    /\ c_pc' = "returned"
    /\ UNCHANGED << files, files_lock, faulty_files, finish_condition,
                    handles, joined, total_files_num, relevant_files_num,
                    parsing_duration_millis, extensions_of_interest, workers,
                    pushed, pop_count, merge_count >>
    /\ UNCHANGED << mvars, clvars, ovvars >>

Coordinator ==
    \/ Spawn
    \/ WalkRelevantFile
    \/ WalkOtherFile
    \/ WalkFinish
    \/ CheckRelevant
    \/ Join
    \/ MeasureDuration
    \/ CheckAllFaulty
    \/ RemoveFaulty
    \/ Render

Worker(w) ==
    \/ W_Front(w)
    \/ W_Unlink(w)
    \/ W_Check(w)
    \/ W_ClassifyOk(w)
    \/ W_ClassifyErr(w)

Next ==
    \/ Coordinator
    \/ \E w \in Workers : Worker(w)

Spec == Init /\ [][Next]_vars

\* the runs under fairness take the configuration with no extension filter
FairInit ==
    /\ Init
    /\ extensions_of_interest = <<>>

\* the threads are scheduled fairly: a step that stays possible is taken
FairSpec ==
    /\ FairInit
    /\ [][Next]_vars
    /\ WF_vars(Coordinator)
    /\ \A w \in Workers : WF_vars(Worker(w))


(***************************************************************************)
(* ExtensionContentInfo::add_file_stats over one list of FileStats, merged *)
(* once in list order and once in a permuted order.                        *)
(***************************************************************************)
\* FileStats of extension e: FileStats::default(keywords) after some calls of
\* incr_lines, incr_code_lines and incr_keyword
StatsPool(e) ==
    LET d == FileStatsDefault(ExtensionsMap[e].keywords)
        keys == DOMAIN d.keyword_occurences
    IN  { [lines |-> d.lines + lc[1], code_lines |-> d.code_lines + lc[2],
           keyword_occurences |-> [k \in keys |-> IF k = hit THEN 1 ELSE 0]] :
            lc \in { <<1, 0>>, <<2, 1>> }, hit \in keys \cup { "" } }

MergeInit ==
    /\ PipelineInit
    /\ ClassifyIdle
    /\ OverviewIdle
    /\ extensions_of_interest = <<>>
    /\ \E e \in Exts, n \in 0 .. MaxMerge :
         /\ m_seq \in [1 .. n -> StatsPool(e)]
         /\ m_perm \in Permutations(1 .. n)
         /\ m_a = ExtensionContentInfoFrom(ExtensionsMap[e])
         /\ m_b = ExtensionContentInfoFrom(ExtensionsMap[e])
    /\ m_i = 0

MergeStep ==
    /\ m_i < Len(m_seq)
    /\ m_i' = m_i + 1
    /\ m_a' = add_file_stats(m_a, m_seq[m_i + 1])
    /\ m_b' = add_file_stats(m_b, m_seq[m_perm[m_i + 1]])
    /\ UNCHANGED << m_seq, m_perm, shared, coord, workers, hist, clvars, ovvars >>

MergeNext == MergeStep

MergeSpec == MergeInit /\ [][MergeNext]_vars


(***************************************************************************)
(* Properties                                                              *)
(***************************************************************************)
AllWorkersDone == \A w \in Workers : w_pc[w] = "done"

RECURSIVE SumOver(_, _)
SumOver(f, S) ==
    IF S = {} THEN 0
    ELSE LET i == CHOOSE i \in S : TRUE
         IN  f[i] + SumOver(f, S \ {i})

\* positions of the Faulty list that hold file id / a file of extension e
FaultyOfId(id) == { i \in 1 .. Len(faulty_files) : faulty_files[i].path.id = id }
FaultyOfExt(e) == { i \in 1 .. Len(faulty_files) : faulty_files[i].path.ext = e }
PushedOfExt(e) == { i \in 1 .. Len(pushed) : pushed[i].ext = e }

\* C1: once every worker has terminated the Work Queue is empty, every pushed
\* path was merged or recorded faulty, and the number of pushed paths is the
\* number of merged files plus the number of FaultyFileRecords.
C1_AllPushedProcessed ==
    AllWorkersDone =>
        /\ files = <<>>
        /\ Len(pushed) = SumOver(merge_count, FileIds) + Len(faulty_files)
        /\ \A i \in 1 .. Len(pushed) :
             merge_count[pushed[i].id] + Cardinality(FaultyOfId(pushed[i].id)) >= 1

\* all workers ended after a walk that pushed paths, some merged, some faulty
C1_Witness ==
    /\ AllWorkersDone
    /\ Len(pushed) = MaxFiles
    /\ faulty_files # <<>>
    /\ SumOver(merge_count, FileIds) >= 1

\* C2: no path is handed to more than one worker, and no file is merged or
\* recorded faulty twice.
C2_NoDoubleDequeue ==
    /\ \A id \in FileIds :
         /\ pop_count[id] <= 1
         /\ merge_count[id] + Cardinality(FaultyOfId(id)) <= pop_count[id]
    /\ \A w1, w2 \in Workers :
         (w1 # w2 /\ w_pc[w1] = "parse" /\ w_pc[w2] = "parse") => w_path[w1] # w_path[w2]

\* both workers are classifying at once, each its own path
C2_Witness ==
    \E w1, w2 \in Workers :
        /\ w1 # w2
        /\ w_pc[w1] = "parse" /\ w_pc[w2] = "parse"
        /\ pop_count[w_path[w1].id] = 1 /\ pop_count[w_path[w2].id] = 1

\* C3: under fair scheduling, once the completion signal is set every
\* worker terminates and run() returns.
C3_WorkersTerminate ==
    finish_condition ~> (AllWorkersDone /\ c_pc = "returned")

\* the signal is set, every worker has ended and run() has returned after
\* files were processed
C3_Witness ==
    /\ finish_condition
    /\ AllWorkersDone
    /\ c_pc = "returned"
    /\ Len(pushed) >= 2

\* C4: the completion signal starts false, is stored once, by the walker
\* when it has finished walking, after which nothing is pushed and the signal
\* stays set; no worker has terminated while it is false.
C4_SignalOnceAfterLastPush ==
    /\ ~finish_condition
    /\ [](finish_condition <=> c_pc \notin {"spawn", "walk"})
    /\ []((\E w \in Workers : w_pc[w] = "done") => finish_condition)
    /\ [][ /\ finish_condition => (finish_condition' /\ pushed' = pushed)
           /\ (finish_condition' # finish_condition) => (c_pc = "walk" /\ c_pc' = "walked")
           /\ c_pc # "walk" => c_pc' # "walk" \/ c_pc = "spawn" ]_vars

\* the signal is set after pushes and a worker has terminated on it
C4_Witness ==
    /\ finish_condition
    /\ Len(pushed) >= 1
    /\ \E w \in Workers : w_pc[w] = "done"


\* C5 as claimed: whenever run() has returned, every worker was joined.
C5_JoinedBeforeAnyOutcome ==
    c_pc = "returned" => (joined = Threads /\ AllWorkersDone)

\* C5, amended: "all faulty" and success are returned only after every
\* worker was joined; "no relevant files" is returned as soon as the walker
\* has returned, before any join.
C5_JoinedBeforeParsedOutcome ==
    /\ (c_pc \in {"joined", "correct", "render"} \/ outcome.kind \in {"AllAreFaultyFiles", "Ok"})
           => (joined = Threads /\ Len(handles) = Threads /\ AllWorkersDone)
    /\ outcome.kind = "NoRelevantFiles" => joined = 0

\* run() returned "all faulty" with every worker joined
C5_Witness ==
    /\ outcome.kind = "AllAreFaultyFiles"
    /\ joined = Threads
    /\ Len(pushed) >= 2

\* the text get_activated_extensions_as_str is to give for a filter list
ActivatedText(list) ==
    IF list = <<>> THEN <<>>
    ELSE [i \in 1 .. 2 * Len(list) + 1 |->
            IF i = 1 THEN "\n(Activated extensions: "
            ELSE IF i = 2 * Len(list) + 1 THEN ")"
            ELSE IF i % 2 = 0 THEN list[i \div 2]
            ELSE ", "]

\* C6: once the walker has returned, run() gives "no relevant files" exactly
\* when the walker reported zero relevant files, and the outcome carries the
\* configured extension filter list.
C6_NoRelevantExactly ==
    /\ c_pc \notin {"spawn", "walk", "walked"} =>
           (outcome.kind = "NoRelevantFiles" <=> relevant_files_num = 0)
    /\ Len(pushed) >= 1 => outcome.kind # "NoRelevantFiles"
    /\ outcome.kind = "NoRelevantFiles" =>
           (c_pc = "returned" /\ outcome.detail = ActivatedText(extensions_of_interest))

\* "no relevant files" for a tree that had files, under an extension filter
C6_Witness ==
    /\ outcome.kind = "NoRelevantFiles"
    /\ total_files_num >= 1
    /\ extensions_of_interest # <<>>
    /\ outcome.detail # <<>>

\* C7: with at least one relevant file, run() gives "all faulty" exactly when
\* the Faulty list is as long as the relevant-file count after the join; a run
\* that merged a file never does, a run that merged none always does.
C7_AllFaultyExactly ==
    (c_pc \in {"correct", "render", "returned"} /\ relevant_files_num >= 1) =>
        /\ outcome.kind = "AllAreFaultyFiles" <=> Len(faulty_files) = relevant_files_num
        /\ SumOver(merge_count, FileIds) >= 1 => outcome.kind # "AllAreFaultyFiles"
        /\ (c_pc = "returned" /\ SumOver(merge_count, FileIds) = 0)
               => outcome.kind = "AllAreFaultyFiles"

\* "all faulty" after several relevant files all failed
C7_Witness ==
    /\ outcome.kind = "AllAreFaultyFiles"
    /\ relevant_files_num >= 2
    /\ Len(faulty_files) = relevant_files_num

FaultyBytes(e) ==
    SumOver([i \in 1 .. Len(faulty_files) |-> faulty_files[i].bytes], FaultyOfExt(e))

\* what the walker recorded for extension e: its pushed files and their bytes
WalkerRecorded(e) ==
    [files |-> Cardinality(PushedOfExt(e)),
     bytes |-> SumOver([i \in 1 .. Len(pushed) |-> FileSize(pushed[i].id)], PushedOfExt(e))]

\* C8: after the correction each extension's metadata is what the walker
\* recorded less its faulty files: files less their number, bytes less the
\* sum of their recorded sizes; until then it is what the walker recorded.
C8_FaultyCorrection ==
    /\ c_pc \in {"spawn", "walk", "walked", "join", "joined", "correct"} =>
           \A e \in Exts : extensions_metadata[e] = WalkerRecorded(e)
    /\ (c_pc = "render" \/ outcome.kind = "Ok") =>
           \A e \in DOMAIN extensions_metadata :
               /\ extensions_metadata[e].files =
                      WalkerRecorded(e).files - Cardinality(FaultyOfExt(e))
               /\ extensions_metadata[e].bytes = WalkerRecorded(e).bytes - FaultyBytes(e)
               /\ FaultyOfExt(e) = {} => extensions_metadata[e] = WalkerRecorded(e)

\* files of 10, 20 and 30 bytes of extension x, the one of 20 bytes faulty:
\* the corrected metadata is 2 files, 40 bytes
C8_Witness ==
    /\ c_pc = "render"
    /\ Len(pushed) = 3
    /\ \A i \in 1 .. 3 : pushed[i] = [id |-> i, ext |-> "x"]
    /\ Len(faulty_files) = 1
    /\ faulty_files[1].path.id = 2 /\ faulty_files[1].bytes = 20
    /\ extensions_metadata["x"] = [files |-> 2, bytes |-> 40]
    /\ extensions_metadata["y"] = [files |-> 0, bytes |-> 0]

\* C9: a worker's classification of one file either adds the file's lines,
\* code lines and every keyword count to its extension's entry and leaves the
\* Faulty list and the other entries alone, or appends one FaultyFileRecord
\* and leaves every entry alone.
C9_ClassifyFrame ==
    [][ \A w \in Workers :
          (w_pc[w] = "parse" /\ w_pc'[w] # "parse") =>
            LET p == w_path[w]
                s == ParseStats(p)
                old == extensions_content_info
                new == extensions_content_info'
            IN  /\ extensions_metadata' = extensions_metadata
                /\ files' = files
                /\ \/ /\ faulty_files' = faulty_files
                      /\ DOMAIN new = DOMAIN old
                      /\ new[p.ext].lines = old[p.ext].lines + s.lines
                      /\ new[p.ext].code_lines = old[p.ext].code_lines + s.code_lines
                      /\ DOMAIN new[p.ext].keyword_occurences = DOMAIN s.keyword_occurences
                      /\ \A k \in DOMAIN s.keyword_occurences :
                           new[p.ext].keyword_occurences[k] =
                               old[p.ext].keyword_occurences[k] + s.keyword_occurences[k]
                      /\ \A e \in DOMAIN old \ {p.ext} : new[e] = old[e]
                   \/ /\ new = old
                      /\ Len(faulty_files') = Len(faulty_files) + 1
                      /\ SubSeq(faulty_files', 1, Len(faulty_files)) = faulty_files
                      /\ faulty_files'[Len(faulty_files')].path = p ]_vars

\* both kinds of classification have happened: a merge into x and a
\* FaultyFileRecord
C9_Witness ==
    /\ extensions_content_info["x"].keyword_occurences["branches"] >= 1
    /\ Len(faulty_files) >= 1
    /\ SumOver(merge_count, FileIds) >= 1

\* C10: merging the same FileStats in list order and in any permuted order
\* gives the same lines, code lines and keyword counts.
C10_MergeOrderIndependent ==
    m_i = Len(m_seq) =>
        /\ m_a.lines = m_b.lines
        /\ m_a.code_lines = m_b.code_lines
        /\ m_a.keyword_occurences = m_b.keyword_occurences

\* MaxMerge different FileStats merged in reversed order
C10_Witness ==
    /\ m_i = Len(m_seq)
    /\ Len(m_seq) >= 3
    /\ m_perm[1] = Len(m_seq)
    /\ m_seq[1] # m_seq[Len(m_seq)]
    /\ m_seq[1].lines # m_seq[Len(m_seq)].lines
    /\ m_a.lines >= 3

\* the extensions of which at least one file was merged
ExtsWithMergedFile ==
    { e \in Exts : \E i \in PushedOfExt(e) : merge_count[pushed[i].id] >= 1 }

C12_DiscoveryCounts ==
    /\ [](c_pc \in {"spawn", "walk", "walked", "join", "joined", "correct"} =>
            /\ SumOver([e \in Exts |-> extensions_metadata[e].files], Exts) = Len(pushed)
            /\ Len(pushed) = relevant_files_num)
    /\ [](relevant_files_num <= total_files_num)
    /\ [][ (total_files_num' = total_files_num + 1 /\ relevant_files_num' = relevant_files_num)
              => /\ extensions_metadata' = extensions_metadata
                 /\ files' = files
                 /\ pushed' = pushed ]_vars

\* the walker has seen three files, one of x, one of y and one of no
\* cataloged extension
C12_Witness ==
    /\ c_pc = "walk"
    /\ total_files_num = 3
    /\ relevant_files_num = 2
    /\ extensions_metadata["x"].files = 1
    /\ extensions_metadata["y"].files = 1

\* C13: a successful run returns Metrics exactly when the parse duration is
\* above 1000 ms, and no failure outcome carries Metrics.
C13_MetricsAboveOneSecond ==
    /\ outcome.kind = "Ok" => (outcome.metrics.some <=> parsing_duration_millis > 1000)
    /\ outcome.kind # "Ok" => ~outcome.metrics.some

\* success after exactly 1000 ms: no Metrics
C13_Witness ==
    /\ outcome.kind = "Ok"
    /\ parsing_duration_millis = 1000
    /\ ~outcome.metrics.some

\* success after 1001 ms: Metrics
C13_WitnessMetrics ==
    /\ outcome.kind = "Ok"
    /\ parsing_duration_millis = 1001
    /\ outcome.metrics.some

\* the lines of the files that were merged
MergedLines ==
    SumOver([i \in 1 .. Len(pushed) |->
                IF merge_count[pushed[i].id] >= 1 THEN ParseStats(pushed[i]).lines ELSE 0],
            1 .. Len(pushed))

\* C14: when Metrics are produced, files/sec is derived from the relevant
\* files less the faulty files, and lines/sec from the lines of the merged
\* files.
C14_MetricsFromCorrectedTotals ==
    outcome.metrics.some =>
        /\ outcome.metrics.files_per_sec =
               ((relevant_files_num - Len(faulty_files)) * 1000) \div parsing_duration_millis
        /\ outcome.metrics.lines_per_sec =
               (MergedLines * 1000) \div parsing_duration_millis

\* what run() does: lines/sec from the merged files, files/sec from every
\* relevant file, the faulty ones included
C14_MetricsAsComputed ==
    outcome.metrics.some =>
        /\ outcome.metrics.files_per_sec =
               (relevant_files_num * 1000) \div parsing_duration_millis
        /\ outcome.metrics.lines_per_sec =
               (MergedLines * 1000) \div parsing_duration_millis

\* ------------------------------------------------------------------
\* The lexical classifier on one file (parse_file).  The file is a stream
\* of tokens: the end of a line, white space, a plain word, the keyword
\* aliases and the markers of the extension.
NewLine == "\n"
Blank == " "
Escape == "\\"
Tokens == { NewLine, Blank, "w", "if", "for", "//", "/*", "*/", "\"" }
\* the tokens of a file given to the classifier to exercise strings
StringTokens == { NewLine, "w", "if", "\"", "'", Escape, "//" }

\* the elements of a sequence
Range(seq) == { seq[i] : i \in 1 .. Len(seq) }

\* the descriptive names of the keywords of ext that have t among their aliases
KeywordNamesOf(ext, t) ==
    { ext.keywords[i].descriptive_name :
        i \in { j \in 1 .. Len(ext.keywords) : t \in Range(ext.keywords[j].aliases) } }

\* every matched keyword is counted
RECURSIVE IncrKeywords(_, _)
IncrKeywords(stats, names) ==
    IF names = {} THEN stats
    ELSE LET n == CHOOSE x \in names : TRUE
         IN  IncrKeywords(incr_keyword(stats, n), names \ {n})

\* the markers that open a region in Normal mode
OpensString(ext, t) == t \in Range(string_symbols(ext))
OpensLineComment(ext, t) == t = ext.comment_symbol
OpensBlockComment(ext, t) ==
    supports_multiline_comments(ext) /\ << t >> = ext.mutliline_comment_start_symbol
ClosesBlockComment(ext, t) == << t >> = ext.mutliline_comment_end_symbol

\* the mode after token t; a string is closed by the delimiter that opened
\* it, unless the token before escapes it
NextMode(ext, mode, delim, escaped, t) ==
    CASE mode = "Normal" /\ OpensString(ext, t) -> "InString"
      [] mode = "Normal" /\ OpensLineComment(ext, t) -> "InLineComment"
      [] mode = "Normal" /\ OpensBlockComment(ext, t) -> "InBlockComment"
      [] mode = "InString" /\ t = delim /\ ~escaped -> "Normal"
      [] mode = "InBlockComment" /\ ClosesBlockComment(ext, t) -> "Normal"
      [] OTHER -> mode

\* the delimiter of the open string after token t
NextDelim(ext, mode, delim, escaped, t) ==
    CASE mode = "Normal" /\ OpensString(ext, t) -> t
      [] mode = "InString" /\ t = delim /\ ~escaped -> NoDelim
      [] OTHER -> delim

\* inside a string the escape character escapes the token after it, an
\* escaped escape character escapes nothing
NextEscaped(mode, escaped, t) ==
    mode = "InString" /\ t = Escape /\ ~escaped

\* a token that makes its line a code line: not white space and outside
\* every string and comment region
IsCodeToken(ext, mode, t) ==
    /\ mode = "Normal"
    /\ t # Blank
    /\ NextMode(ext, mode, NoDelim, FALSE, t) = "Normal"

\* the end of a line: the line is counted, and counted as code when it had a
\* code token; only a block comment goes on into the next line
EndOfLine(stats, has_code) ==
    IF has_code THEN incr_code_lines(incr_lines(stats)) ELSE incr_lines(stats)

ModeAfterLine(mode) == IF mode = "InBlockComment" THEN "InBlockComment" ELSE "Normal"

\* the tokens of the line being read
RECURSIVE LastLine(_)
LastLine(seq) ==
    IF seq = <<>> \/ seq[Len(seq)] = NewLine THEN <<>>
    ELSE Append(LastLine(SubSeq(seq, 1, Len(seq) - 1)), seq[Len(seq)])

ClassifyInit ==
    /\ PipelineInit
    /\ extensions_of_interest = <<>>
    /\ MergeIdle
    /\ OverviewIdle
    /\ cl_ext \in Exts
    /\ cl_read = <<>>
    /\ cl_mode = "Normal"
    /\ cl_start_mode = "Normal"
    /\ cl_has_code = FALSE
    /\ cl_delim = NoDelim
    /\ cl_escaped = FALSE
    /\ cl_stats = FileStatsDefault(ExtensionsMap[cl_ext].keywords)
    /\ cl_done = FALSE

\* one token of the current line, out of the tokens T, is read
ClRead(T) ==
    /\ ~cl_done
    /\ Len(cl_read) < MaxTokens
    /\ \E t \in T \ {NewLine} :
        LET ext == ExtensionsMap[cl_ext]
        IN  /\ cl_read' = Append(cl_read, t)
            /\ cl_mode' = NextMode(ext, cl_mode, cl_delim, cl_escaped, t)
            /\ cl_delim' = NextDelim(ext, cl_mode, cl_delim, cl_escaped, t)
            /\ cl_escaped' = NextEscaped(cl_mode, cl_escaped, t)
            /\ cl_has_code' = (cl_has_code \/ IsCodeToken(ext, cl_mode, t))
            /\ cl_stats' = IF IsCodeToken(ext, cl_mode, t)
                           THEN IncrKeywords(cl_stats, KeywordNamesOf(ext, t))
                           ELSE cl_stats
    /\ UNCHANGED << cl_ext, cl_start_mode, cl_done >>
    /\ UNCHANGED << shared, coord, workers, hist, mvars, ovvars >>

ClReadToken == ClRead(Tokens)

\* the line ends
ClEndLine ==
    /\ ~cl_done
    /\ Len(cl_read) < MaxTokens
    /\ cl_read' = Append(cl_read, NewLine)
    /\ cl_stats' = EndOfLine(cl_stats, cl_has_code)
    /\ cl_mode' = ModeAfterLine(cl_mode)
    /\ cl_start_mode' = ModeAfterLine(cl_mode)
    /\ cl_has_code' = FALSE
    /\ cl_delim' = NoDelim
    /\ cl_escaped' = FALSE
    /\ UNCHANGED << cl_ext, cl_done >>
    /\ UNCHANGED << shared, coord, workers, hist, mvars, ovvars >>

\* the file ends; a last line without a line end is a line
ClEof ==
    /\ ~cl_done
    /\ cl_done' = TRUE
    /\ cl_stats' = IF LastLine(cl_read) # <<>>
                   THEN EndOfLine(cl_stats, cl_has_code)
                   ELSE cl_stats
    /\ UNCHANGED << cl_ext, cl_read, cl_mode, cl_start_mode, cl_has_code, cl_delim,
                    cl_escaped >>
    /\ UNCHANGED << shared, coord, workers, hist, mvars, ovvars >>

ClassifyNext == ClReadToken \/ ClEndLine \/ ClEof

ClassifySpec == ClassifyInit /\ [][ClassifyNext]_vars

\* the classifier on files of string delimiters and escape characters
StrReadToken == ClRead(StringTokens)

StringNext == StrReadToken \/ ClEndLine \/ ClEof

StringSpec == ClassifyInit /\ [][StringNext]_vars

\* the classifier on several files of one extension, each merged into the
\* extension's entry when it is finished
LineTokens == { NewLine, "w", "//" }

LineReadToken == ClRead(LineTokens)

\* the files classified so far
FilesMerged == SumOver(merge_count, FileIds)

\* the worker merges the finished file's FileStats and takes the next file
ClMerge ==
    /\ cl_done
    /\ FilesMerged < MaxFiles
    /\ extensions_content_info' =
           [extensions_content_info EXCEPT ![cl_ext] = add_file_stats(@, cl_stats)]
    /\ merge_count' = [merge_count EXCEPT ![FilesMerged + 1] = @ + 1]
    /\ cl_read' = <<>>
    /\ cl_mode' = "Normal"
    /\ cl_start_mode' = "Normal"
    /\ cl_has_code' = FALSE
    /\ cl_delim' = NoDelim
    /\ cl_escaped' = FALSE
    /\ cl_stats' = FileStatsDefault(ExtensionsMap[cl_ext].keywords)
    /\ cl_done' = FALSE
    /\ UNCHANGED << cl_ext, files, files_lock, faulty_files, finish_condition,
                    extensions_metadata, coord, workers, pushed, pop_count, rendered >>
    /\ UNCHANGED << mvars, ovvars >>

ClassifyMergeNext == LineReadToken \/ ClEndLine \/ ClEof \/ ClMerge

ClassifyMergeSpec == ClassifyInit /\ [][ClassifyMergeNext]_vars

\* ------------------------------------------------------------------
\* Properties of the classifier, stated on the tokens read

\* the step reads a token; the token read
ReadsToken == Len(cl_read') = Len(cl_read) + 1
TokenRead == cl_read'[Len(cl_read')]

\* the step counts a line (a line end, or the end of the file after a last line)
CountsLine == cl_stats'.lines = cl_stats.lines + 1
CodeLinesAdded == cl_stats'.code_lines - cl_stats.code_lines

\* the number of positions of seq that hold a token of S
CountIn(seq, S) == Cardinality({ i \in 1 .. Len(seq) : seq[i] \in S })

\* the aliases of the keyword called name
AliasesOf(ext, name) ==
    UNION { Range(ext.keywords[i].aliases) :
              i \in { j \in 1 .. Len(ext.keywords) : ext.keywords[j].descriptive_name = name } }

\* the tokens that can open or close a region
Markers == { "//", "/*", "*/", "\"", "'" }
MarkerFree(seq) == Range(seq) \cap Markers = {}

\* a token that is neither white space nor a line end
HasWord(seq) == Range(seq) \ { Blank, NewLine } # {}

\* in a text without markers: the number of lines that hold a word
PlainCodeLines(seq) ==
    Cardinality({ i \in 1 .. Len(seq) :
        /\ seq[i] \notin { Blank, NewLine }
        /\ \A j \in 1 .. (i - 1) :
             seq[j] \notin { Blank, NewLine } => \E m \in (j + 1) .. (i - 1) : seq[m] = NewLine })

\* C15: a keyword count changes only when an alias of that keyword is read
\* as a token in Normal mode, and then by exactly one; no count exceeds the
\* number of alias tokens read, and in a text without strings and comments
\* every alias token is counted.
C15_KeywordsOnlyInNormalMode ==
    /\ [][ LET ext == ExtensionsMap[cl_ext]
               kw == cl_stats.keyword_occurences
           IN  /\ DOMAIN cl_stats'.keyword_occurences = DOMAIN kw
               /\ \A n \in DOMAIN kw :
                    cl_stats'.keyword_occurences[n] =
                      kw[n] + (IF ReadsToken /\ cl_mode = "Normal" /\ TokenRead \in AliasesOf(ext, n)
                               THEN 1 ELSE 0) ]_vars
    /\ [](\A n \in DOMAIN cl_stats.keyword_occurences :
            /\ cl_stats.keyword_occurences[n] <= CountIn(cl_read, AliasesOf(ExtensionsMap[cl_ext], n))
            /\ MarkerFree(cl_read) =>
                 cl_stats.keyword_occurences[n] = CountIn(cl_read, AliasesOf(ExtensionsMap[cl_ext], n)))

\* "if // if": the first alias is counted, the one in the comment is not
C15_Witness ==
    /\ cl_done
    /\ cl_ext = "x"
    /\ cl_read = << "if", Blank, "//", Blank, "if" >>
    /\ cl_stats.lines = 1
    /\ cl_stats.code_lines = 1
    /\ cl_stats.keyword_occurences["branches"] = 1

\* C16: the block-comment start marker met in Normal mode opens a block
\* comment, which lasts over line ends until its end marker; a line wholly
\* inside it is not a code line, a boundary line is a code line exactly when
\* it holds a word outside the comment, and after a start marker that is
\* never closed no further line is a code line.
C16_BlockCommentPersists ==
    /\ [][ LET ext == ExtensionsMap[cl_ext]
               line == LastLine(cl_read)
               IsEnd(t) == << t >> = ext.mutliline_comment_end_symbol
               IsStart(t) == << t >> = ext.mutliline_comment_start_symbol
           IN  /\ (ReadsToken /\ cl_mode = "Normal" /\ IsStart(TokenRead))
                    => cl_mode' = "InBlockComment"
               /\ cl_mode = "InBlockComment"
                    => cl_mode' = IF ReadsToken /\ IsEnd(TokenRead) THEN "Normal" ELSE "InBlockComment"
               /\ (CountsLine /\ cl_start_mode = "InBlockComment"
                     /\ \A k \in 1 .. Len(line) : ~IsEnd(line[k]))
                    => CodeLinesAdded = 0
               /\ CountsLine /\ cl_start_mode = "InBlockComment"
                    => \A k \in 1 .. Len(line) :
                         ( /\ IsEnd(line[k])
                           /\ \A j \in 1 .. (k - 1) : ~IsEnd(line[j])
                           /\ MarkerFree(SubSeq(line, k + 1, Len(line))) )
                         => CodeLinesAdded = IF HasWord(SubSeq(line, k + 1, Len(line))) THEN 1 ELSE 0
               /\ CountsLine /\ cl_start_mode = "Normal"
                    => \A k \in 1 .. Len(line) :
                         ( /\ IsStart(line[k])
                           /\ MarkerFree(SubSeq(line, 1, k - 1))
                           /\ \A j \in (k + 1) .. Len(line) : ~IsEnd(line[j]) )
                         => CodeLinesAdded = IF HasWord(SubSeq(line, 1, k - 1)) THEN 1 ELSE 0 ]_vars
    /\ [](cl_done =>
            \A k \in 1 .. Len(cl_read) :
              ( /\ << cl_read[k] >> = ExtensionsMap[cl_ext].mutliline_comment_start_symbol
                /\ MarkerFree(SubSeq(cl_read, 1, k - 1))
                /\ \A j \in (k + 1) .. Len(cl_read) :
                     << cl_read[j] >> # ExtensionsMap[cl_ext].mutliline_comment_end_symbol )
              => /\ cl_mode = "InBlockComment"
                 /\ cl_stats.code_lines = PlainCodeLines(SubSeq(cl_read, 1, k - 1)))

\* a comment opened after a word and never closed: the boundary line is the
\* only code line, the alias on the second line is not counted
C16_Witness ==
    /\ cl_done
    /\ cl_ext = "x"
    /\ cl_read = << "w", "/*", NewLine, "if", NewLine >>
    /\ cl_mode = "InBlockComment"
    /\ cl_stats.lines = 2
    /\ cl_stats.code_lines = 1
    /\ cl_stats.keyword_occurences["branches"] = 0

\* C17: the line-comment marker met in Normal mode opens a line comment,
\* which lasts to the end of its line and no further: no line starts in
\* InLineComment; a line with a word before the comment is counted as a code
\* line once, a line that holds only a comment is not a code line.
C17_LineCommentEndsWithLine ==
    /\ [][ LET ext == ExtensionsMap[cl_ext]
               line == LastLine(cl_read)
           IN  /\ (ReadsToken /\ cl_mode = "Normal" /\ TokenRead = ext.comment_symbol)
                    => cl_mode' = "InLineComment"
               /\ (ReadsToken /\ cl_mode = "InLineComment")
                    => cl_mode' = IF TokenRead = NewLine THEN "Normal" ELSE "InLineComment"
               /\ CountsLine /\ cl_start_mode = "Normal"
                    => \A k \in 1 .. Len(line) :
                         ( /\ line[k] = ext.comment_symbol
                           /\ MarkerFree(SubSeq(line, 1, k - 1)) )
                         => CodeLinesAdded = IF HasWord(SubSeq(line, 1, k - 1)) THEN 1 ELSE 0 ]_vars
    /\ [](cl_start_mode # "InLineComment")
    /\ [](LastLine(cl_read) = <<>> => cl_mode # "InLineComment")

\* a word with a trailing comment, then a line that is only a comment
C17_Witness ==
    /\ cl_done
    /\ cl_read = << "w", "//", NewLine, "//", "w" >>
    /\ cl_stats.lines = 2
    /\ cl_stats.code_lines = 1

\* C18: lines is the number of lines read, whatever they hold; a file of
\* blank lines has no code line.
C18_EveryLineCounted ==
    /\ cl_stats.lines = CountIn(cl_read, {NewLine})
                          + (IF cl_done /\ LastLine(cl_read) # <<>> THEN 1 ELSE 0)
    /\ (cl_done /\ Range(cl_read) \subseteq { NewLine, Blank }) => cl_stats.code_lines = 0

\* three blank lines, the last without a line end
C18_Witness ==
    /\ cl_done
    /\ cl_read = << Blank, NewLine, NewLine, Blank >>
    /\ cl_stats.lines = 3
    /\ cl_stats.code_lines = 0

\* ------------------------------------------------------------------
\* the pushed positions of extension e whose file was merged
MergedOfExt(e) == { i \in PushedOfExt(e) : merge_count[pushed[i].id] >= 1 }

\* the FileStats of the pushed files, by position
PushedStats == [i \in 1 .. Len(pushed) |-> ParseStats(pushed[i])]

\* C19: once every worker has terminated, and until the maps are handed to
\* rendering, each extension's lines, code lines and keyword counts are the
\* sums over the files of that extension that were classified successfully;
\* every pushed file was merged once or has one FaultyFileRecord, never
\* both, and every record is of a pushed file.
C19_NoLostUpdate ==
    AllWorkersDone =>
        /\ rendered = 0 =>
             \A e \in Exts :
               LET info == extensions_content_info[e]
               IN  /\ info.lines =
                         SumOver([i \in 1 .. Len(pushed) |-> PushedStats[i].lines], MergedOfExt(e))
                   /\ info.code_lines =
                         SumOver([i \in 1 .. Len(pushed) |-> PushedStats[i].code_lines], MergedOfExt(e))
                   /\ \A k \in DOMAIN info.keyword_occurences :
                         info.keyword_occurences[k] =
                           SumOver([i \in 1 .. Len(pushed) |-> PushedStats[i].keyword_occurences[k]],
                                   MergedOfExt(e))
        /\ \A i \in 1 .. Len(pushed) :
             /\ merge_count[pushed[i].id] <= 1
             /\ Cardinality(FaultyOfId(pushed[i].id)) = 1 - merge_count[pushed[i].id]
        /\ \A j \in 1 .. Len(faulty_files) :
             \E i \in 1 .. Len(pushed) : pushed[i] = faulty_files[j].path

\* three files of x, the second unreadable: the entry of x holds the sums of
\* the first and the third
C19_Witness ==
    /\ AllWorkersDone
    /\ rendered = 0
    /\ Len(pushed) = 3
    /\ \A i \in 1 .. 3 : pushed[i].ext = "x"
    /\ Len(faulty_files) = 1
    /\ faulty_files[1].path.id = 2
    /\ extensions_content_info["x"].lines = 6
    /\ extensions_content_info["x"].code_lines = 4
    /\ extensions_content_info["x"].keyword_occurences["loops"] = 2

\* ------------------------------------------------------------------
\* C20: for every extension the keyword keys of a fresh FileStats and of the
\* seeded ExtensionContentInfo are the descriptive names of its keywords;
\* every entry keeps exactly these keys through all merges; and a worker
\* about to merge holds a FileStats whose keys are keys of an existing entry,
\* so that get_mut(k).unwrap() finds every key.
C20_KeywordKeysAlwaysPresent ==
    /\ \A e \in Exts :
         LET names == KeywordNames(ExtensionsMap[e].keywords)
         IN  /\ DOMAIN FileStatsDefault(ExtensionsMap[e].keywords).keyword_occurences = names
             /\ DOMAIN ExtensionContentInfoFrom(ExtensionsMap[e]).keyword_occurences = names
             /\ e \in DOMAIN extensions_content_info =>
                  DOMAIN extensions_content_info[e].keyword_occurences = names
    /\ \A w \in Workers :
         w_pc[w] = "parse" =>
           /\ w_path[w].ext \in DOMAIN extensions_content_info
           /\ DOMAIN ParseStats(w_path[w]).keyword_occurences
                \subseteq DOMAIN extensions_content_info[w_path[w].ext].keyword_occurences

\* after two merges a worker is about to merge a file of y into entries that
\* already hold counts
C20_Witness ==
    /\ SumOver(merge_count, FileIds) >= 2
    /\ extensions_content_info["x"].keyword_occurences["loops"] >= 1
    /\ \E w \in Workers : w_pc[w] = "parse" /\ w_path[w].ext = "y"

\* ------------------------------------------------------------------
\* the number of escape characters that stand directly before position j
RunBefore(seq, j) ==
    Cardinality({ n \in 1 .. (j - 1) : \A i \in (j - n) .. (j - 1) : seq[i] = Escape })

\* the token at j closes the string that the token at k opened
ClosesString(seq, k, j) == seq[j] = seq[k] /\ RunBefore(seq, j) % 2 = 0

\* C21: a string delimiter met in Normal mode opens a string; inside the
\* string only the delimiter that opened it, not escaped, returns to Normal
\* mode; a line end closes an open string, so no line starts in InString.
\* (Extension has no field that lets a delimiter span lines.)
C21_StringBounded ==
    /\ [][ LET ext == ExtensionsMap[cl_ext]
           IN  /\ (ReadsToken /\ cl_mode = "Normal" /\ TokenRead \in Range(ext.string_symbols))
                    => cl_mode' = "InString"
               /\ (ReadsToken /\ cl_mode = "InString" /\ TokenRead # NewLine)
                    => cl_mode' = IF TokenRead = cl_delim
                                       /\ RunBefore(cl_read', Len(cl_read')) % 2 = 0
                                  THEN "Normal" ELSE "InString"
               /\ (ReadsToken /\ TokenRead = NewLine /\ cl_mode = "InString")
                    => cl_mode' = "Normal" ]_vars
    /\ [](cl_start_mode # "InString")
    /\ [](LastLine(cl_read) = <<>> => cl_mode # "InString")
    /\ [](LET ext == ExtensionsMap[cl_ext]
              line == LastLine(cl_read)
          IN  cl_start_mode = "Normal" =>
                \A k \in 1 .. Len(line) :
                  ( /\ line[k] \in Range(ext.string_symbols)
                    /\ MarkerFree(SubSeq(line, 1, k - 1)) )
                  => LET closers == { j \in (k + 1) .. Len(line) : ClosesString(line, k, j) }
                     IN  IF closers = {}
                         THEN cl_mode = "InString" /\ cl_delim = line[k]
                         ELSE LET j == CHOOSE c \in closers : \A d \in closers : c <= d
                              IN  MarkerFree(SubSeq(line, j + 1, Len(line)))
                                    => cl_mode = "Normal")

\* a string with an escaped delimiter, left open at the line end; the alias
\* on the next line is read in Normal mode
C21_Witness ==
    /\ cl_done
    /\ cl_ext = "x"
    /\ cl_read = << "\"", Escape, "\"", NewLine, "if" >>
    /\ cl_mode = "Normal"
    /\ cl_stats.lines = 2
    /\ cl_stats.code_lines = 1
    /\ cl_stats.keyword_occurences["branches"] = 1

(***************************************************************************)
(* result_printer: percentages and bars of the overview.  A percentage is  *)
(* held in tenths of a percent, which is what the code rounds it to.       *)
(***************************************************************************)
\* static NUM_OF_VERTICALS
NUM_OF_VERTICALS == 50

\* the f64 that 0/0 gives
NaN == -1

\* the sum of a list
SeqSum(seq) == SumOver(seq, 1 .. Len(seq))

\* f64::round of x / y for x >= 0, y > 0: to the nearest integer, a half upwards
RoundDiv(x, y) == (2 * x + y) \div (2 * y)

\* (percentage * 1000f64).round() / 10f64, in tenths
Canonicalized(count, total_files) ==
    IF total_files = 0 THEN NaN ELSE RoundDiv(1000 * count, total_files)

\* a bug get_percentages could have: the last entry without the 99.89 test
get_percentages_unguarded(numbers) ==
    LET total_files == SeqSum(numbers)
        n == Len(numbers)
        canon == [i \in 1 .. (n - 1) |-> Canonicalized(numbers[i], total_files)]
        sum == IF total_files = 0 /\ n > 1 THEN NaN ELSE SumOver(canon, 1 .. (n - 1))
        rounded == IF sum = NaN THEN NaN ELSE 1000 - sum
    IN  [i \in 1 .. n |-> IF i = n THEN rounded ELSE canon[i]]

\* fn get_percentages(numbers)
get_percentages(numbers) ==
    LET total_files == SeqSum(numbers)
        n == Len(numbers)
        canon == [i \in 1 .. (n - 1) |-> Canonicalized(numbers[i], total_files)]
        sum == IF total_files = 0 /\ n > 1 THEN NaN ELSE SumOver(canon, 1 .. (n - 1))
        rounded == IF sum = NaN THEN NaN
                   ELSE IF sum * 10 > 9989 THEN 0
                   ELSE 1000 - sum
    IN  [i \in 1 .. n |-> IF i = n THEN rounded ELSE canon[i]]

\* sort_by(|a, b| b.cmp(a)) on the references into verticals: stable,
\* descending by the value referred to
RECURSIVE SortRefs(_, _)
SortRefs(refs, v) ==
    IF refs = <<>> THEN <<>>
    ELSE LET front == SortRefs(SubSeq(refs, 1, Len(refs) - 1), v)
             r == refs[Len(refs)]
             k == Cardinality({ j \in 1 .. Len(front) : v[front[j]] >= v[r] })
         IN  SubSeq(front, 1, k) \o << r >> \o SubSeq(front, k + 1, Len(front))

\* *sorted_verticals[k] -= 1 on usize: below zero the subtraction panics
Sub1(st, k) ==
    IF st.panicked THEN st
    ELSE IF st.v[st.refs[k]] = 0 THEN [st EXCEPT !.panicked = TRUE]
    ELSE [st EXCEPT !.v[st.refs[k]] = @ - 1]

\* *sorted_verticals[k] += 1
Add1(st, k) ==
    IF st.panicked THEN st ELSE [st EXCEPT !.v[st.refs[k]] = @ + 1]

\* sorted_verticals.sort_by(comparator)
Resort(st) == [st EXCEPT !.refs = SortRefs(st.refs, st.v)]

\* the loop over same_num_of_verticals_indices, from index i on
RECURSIVE AdjustSame(_, _, _, _, _)
AdjustSame(st, i, same, difference, is_over) ==
    IF i > same \/ difference = 0 THEN [st |-> st, difference |-> difference]
    ELSE AdjustSame(IF is_over THEN Sub1(st, i) ELSE Add1(st, i),
                    i + 1, same, difference - 1, is_over)

\* one round of `for _ in 0..difference-1`
NormalizeRound(st, is_over) ==
    IF is_over
    THEN IF st.v[st.refs[1]] > st.v[st.refs[2]] + 3
         THEN Sub1(st, 1)
         ELSE IF Len(st.refs) > 2 THEN Resort(Sub1(st, 2)) ELSE Sub1(st, 2)
    ELSE IF st.v[st.refs[1]] > st.v[st.refs[2]] + 5
         THEN IF Len(st.refs) > 2 THEN Resort(Add1(st, 2)) ELSE Add1(st, 2)
         ELSE Add1(st, 1)

RECURSIVE NormalizeRounds(_, _, _)
NormalizeRounds(st, rounds, is_over) ==
    IF rounds = 0 \/ st.panicked THEN st
    ELSE NormalizeRounds(NormalizeRound(st, is_over), rounds - 1, is_over)

\* a bug normalize_to_NUM_OF_VERTICALS could have: the first step after the
\* equal entries is left out
normalize_one_short(verticals, sum) ==
    LET sorted == SortRefs([i \in 1 .. Len(verticals) |-> i], verticals)
        is_over == sum > NUM_OF_VERTICALS
        difference == IF is_over THEN sum - NUM_OF_VERTICALS ELSE NUM_OF_VERTICALS - sum
        same == Cardinality({ k \in 1 .. Len(sorted) :
                                verticals[sorted[k]] = verticals[sorted[1]] })
        st0 == [v |-> verticals, refs |-> sorted, panicked |-> FALSE]
        a == IF same > 1 THEN AdjustSame(st0, 1, same, difference, is_over)
             ELSE [st |-> st0, difference |-> difference]
    IN  IF a.difference = 0 THEN a.st
        ELSE NormalizeRounds(a.st, a.difference - 1, is_over)

\* fn normalize_to_NUM_OF_VERTICALS(verticals, sum), for two or more entries
normalize_to_NUM_OF_VERTICALS(verticals, sum) ==
    LET sorted == SortRefs([i \in 1 .. Len(verticals) |-> i], verticals)
        is_over == sum > NUM_OF_VERTICALS
        difference == IF is_over THEN sum - NUM_OF_VERTICALS ELSE NUM_OF_VERTICALS - sum
        same == Cardinality({ k \in 1 .. Len(sorted) :
                                verticals[sorted[k]] = verticals[sorted[1]] })
        st0 == [v |-> verticals, refs |-> sorted, panicked |-> FALSE]
        a == IF same > 1 THEN AdjustSame(st0, 1, same, difference, is_over)
             ELSE [st |-> st0, difference |-> difference]
        first == IF is_over THEN Resort(Sub1(a.st, 1)) ELSE Add1(a.st, 1)
    IN  IF a.difference = 0 THEN a.st
        ELSE NormalizeRounds(first, a.difference - 1, is_over)

\* a bug the bars of one percentage could have: no bar for a small percentage
num_of_verticals_unclamped(files_percent) ==
    IF files_percent = 0 THEN 0
    ELSE IF files_percent = NaN THEN 0
    ELSE RoundDiv(files_percent, 20)

\* the bars of one percentage: (files_percent/2.0).round() as usize, at least
\* 1 unless the percentage is 0; NaN as usize is 0
num_of_verticals(files_percent) ==
    IF files_percent = 0 THEN 0
    ELSE IF files_percent = NaN THEN 1
    ELSE IF RoundDiv(files_percent, 20) = 0 THEN 1
    ELSE RoundDiv(files_percent, 20)

\* the bars pushed by the loop of get_num_of_verticals
RawVerticals(percentages) ==
    [i \in 1 .. Len(percentages) |-> num_of_verticals(percentages[i])]

\* fn get_num_of_verticals(percentages)
get_num_of_verticals(percentages) ==
    LET verticals == RawVerticals(percentages)
        sum == SeqSum(verticals)
    IN  IF sum # NUM_OF_VERTICALS
        THEN normalize_to_NUM_OF_VERTICALS(verticals, sum)
        ELSE [v |-> verticals, refs |-> <<>>, panicked |-> FALSE]

\* the lists of two to four numbers up to max
Lists(max) == UNION { [1 .. n -> 0 .. max] : n \in 2 .. 4 }

\* counts out of a total of 1000: the percentages are the counts
PermilleChoices == { 0, 1, 9, 10, 29, 30, 330, 333, 334, 490, 499, 500, 990, 997, 999, 1000 }
PermilleNumbers ==
    { Append(front, 1000 - SeqSum(front)) :
        front \in { f \in UNION { [1 .. n -> PermilleChoices] : n \in 1 .. 3 } :
                      SeqSum(f) <= 1000 } }

BarsInit ==
    /\ PipelineInit
    /\ extensions_of_interest = <<>>
    /\ MergeIdle
    /\ ClassifyIdle
    /\ FoldIdle
    /\ ov_percentages = <<>>
    /\ ov_verticals = <<>>
    /\ ov_panicked = FALSE
    /\ \/ /\ ov_pc = "numbers"
          /\ ov_numbers \in Lists(MaxCount) \cup PermilleNumbers
          /\ ov_raw = <<>>
       \/ /\ ov_pc = "direct"
          /\ ov_numbers = <<>>
          /\ ov_raw \in { v \in Lists(MaxBar) : SeqSum(v) # NUM_OF_VERTICALS }

\* the extension names of the overview, most relevant first
OverviewNames == << "py", "java", "cs", "rs" >>

\* the map that holds count numbers[i] for the i-th name
CountsMap(numbers) ==
    [e \in { OverviewNames[i] : i \in 1 .. Len(numbers) } |->
        numbers[CHOOSE i \in 1 .. Len(numbers) : OverviewNames[i] = e]]

\* the closure of get_lines_percentages: the count of every entry of the map
\* is written at the position of its name
numbers_in_order(counts_map, extensions_name) ==
    [pos \in 1 .. Cardinality(DOMAIN counts_map) |->
        IF extensions_name[pos] \in DOMAIN counts_map
        THEN counts_map[extensions_name[pos]] ELSE 0]

\* fn get_lines_percentages(content_info_map, extensions_name); the same for
\* files and sizes
get_lines_percentages(counts_map, extensions_name) ==
    get_percentages(numbers_in_order(counts_map, extensions_name))

\* get_files_percentages, get_lines_percentages, get_sizes_percentages
GetPercentages ==
    /\ ov_pc = "numbers"
    /\ ov_percentages' = get_lines_percentages(CountsMap(ov_numbers), OverviewNames)
    /\ ov_pc' = "percentages"
    /\ UNCHANGED << ov_numbers, ov_raw, ov_verticals, ov_panicked, fovars >>
    /\ UNCHANGED << shared, coord, workers, hist, mvars, clvars >>

\* get_num_of_verticals on the percentages
GetNumOfVerticals ==
    /\ ov_pc = "percentages"
    /\ ov_raw' = RawVerticals(ov_percentages)
    /\ ov_verticals' = get_num_of_verticals(ov_percentages).v
    /\ ov_panicked' = get_num_of_verticals(ov_percentages).panicked
    /\ ov_pc' = "verticals"
    /\ UNCHANGED << ov_numbers, ov_percentages, fovars >>
    /\ UNCHANGED << shared, coord, workers, hist, mvars, clvars >>

\* normalize_to_NUM_OF_VERTICALS called with a list and its sum
Normalize ==
    /\ ov_pc = "direct"
    /\ ov_verticals' = normalize_to_NUM_OF_VERTICALS(ov_raw, SeqSum(ov_raw)).v
    /\ ov_panicked' = normalize_to_NUM_OF_VERTICALS(ov_raw, SeqSum(ov_raw)).panicked
    /\ ov_pc' = "verticals"
    /\ UNCHANGED << ov_numbers, ov_percentages, ov_raw, fovars >>
    /\ UNCHANGED << shared, coord, workers, hist, mvars, clvars >>

BarsNext == GetPercentages \/ GetNumOfVerticals \/ Normalize

BarsSpec == BarsInit /\ [][BarsNext]_vars

(***************************************************************************)
(* result_printer: the maps of the overview, folded to four entries        *)
(***************************************************************************)
\* the extensions that can have files
FoldNames == { "c", "java", "py", "rs", "go", "others" }

\* what one extension can hold: files, bytes and lines
FoldChoices ==
    { [files |-> 1, bytes |-> 0, lines |-> 0],
      [files |-> 1, bytes |-> 10, lines |-> 3],
      [files |-> 2, bytes |-> 25, lines |-> 7] }

\* ExtensionContentInfo::dummy(lines)
ExtensionContentInfoDummy(lines) ==
    [lines |-> lines, code_lines |-> 0, keyword_occurences |-> << >>]

\* ExtensionMetadata::new(files, bytes)
ExtensionMetadataNew(files_num, bytes) == [files |-> files_num, bytes |-> bytes]

\* the value get_extension_names_as_sorted_vec_according_to_how_much_they_appeared sorts by
SortValue(metadata) == metadata.files * 10 + metadata.bytes

\* the results that function can give for the extensions S: every order by
\* descending value (the order of equal values is that of the HashMap)
RECURSIVE SortedNameVecs(_, _)
SortedNameVecs(S, metadata_map) ==
    IF S = {} THEN { << >> }
    ELSE UNION { { << e >> \o t : t \in SortedNameVecs(S \ {e}, metadata_map) } :
                   e \in { x \in S : \A y \in S :
                             SortValue(metadata_map[x]) >= SortValue(metadata_map[y]) } }

\* get_files_lines_size of retain_most_relevant_and_add_others_field_for_rest
get_files_lines_size(content_info_map, extensions_metadata_map) ==
    [files |-> SumOver([e \in DOMAIN extensions_metadata_map |-> extensions_metadata_map[e].files],
                       DOMAIN extensions_metadata_map),
     lines |-> SumOver([e \in DOMAIN content_info_map |-> content_info_map[e].lines],
                       DOMAIN content_info_map),
     size  |-> SumOver([e \in DOMAIN extensions_metadata_map |-> extensions_metadata_map[e].bytes],
                       DOMAIN extensions_metadata_map)]

\* HashMap::retain(|x, _| names.contains(x))
Retain(map, names) == [e \in DOMAIN map \cap Range(names) |-> map[e]]

\* HashMap::insert(key, value)
Insert(map, key, value) == [e \in DOMAIN map \cup {key} |-> IF e = key THEN value ELSE map[e]]

\* fn retain_most_relevant_and_add_others_field_for_rest
retain_most_relevant_and_add_others_field_for_rest(sorted_extension_names, content_info_map, extensions_metadata_map) ==
    LET total == get_files_lines_size(content_info_map, extensions_metadata_map)
        long == Len(sorted_extension_names) > 4
        names == IF long THEN Append(SubSeq(sorted_extension_names, 1, 3), "others")
                 ELSE sorted_extension_names
        content == IF long THEN Retain(content_info_map, names) ELSE content_info_map
        meta == IF long THEN Retain(extensions_metadata_map, names) ELSE extensions_metadata_map
        relevant == get_files_lines_size(content, meta)
    IN  [names |-> names,
         content |-> Insert(content, "others",
                            ExtensionContentInfoDummy(total.lines - relevant.lines)),
         meta |-> Insert(meta, "others",
                         ExtensionMetadataNew(total.files - relevant.files,
                                              total.size - relevant.size))]

\* the maps after remove_extensions_with_0_files: two or more extensions,
\* each with files
FoldInit ==
    /\ PipelineInit
    /\ extensions_of_interest = <<>>
    /\ MergeIdle
    /\ ClassifyIdle
    /\ ov_pc = "idle"
    /\ ov_numbers = <<>>
    /\ ov_percentages = <<>>
    /\ ov_raw = <<>>
    /\ ov_verticals = <<>>
    /\ ov_panicked = FALSE
    /\ fo_pc = "maps"
    /\ \E S \in { T \in SUBSET FoldNames : Cardinality(T) >= 2 } :
         \E held \in [S -> FoldChoices] :
           /\ fo_meta0 = [e \in S |-> ExtensionMetadataNew(held[e].files, held[e].bytes)]
           /\ fo_content0 = [e \in S |-> ExtensionContentInfoDummy(held[e].lines)]
    /\ fo_meta = fo_meta0
    /\ fo_content = fo_content0
    /\ fo_names = << >>

\* format_and_print_results: the names, sorted
SortNames ==
    /\ fo_pc = "maps"
    /\ fo_names' \in SortedNameVecs(DOMAIN fo_meta, fo_meta)
    /\ fo_pc' = "sorted"
    /\ UNCHANGED << fo_content0, fo_meta0, fo_content, fo_meta >>
    /\ UNCHANGED << ov_pc, ov_numbers, ov_percentages, ov_raw, ov_verticals, ov_panicked >>
    /\ UNCHANGED << shared, coord, workers, hist, mvars, clvars >>

\* print_visual_overview, lines 151 - 153
FoldOverview ==
    /\ fo_pc = "sorted"
    /\ LET folded == retain_most_relevant_and_add_others_field_for_rest(
                         fo_names, fo_content, fo_meta)
       IN  IF Cardinality(DOMAIN fo_content) > 4
           THEN /\ fo_names' = folded.names
                /\ fo_content' = folded.content
                /\ fo_meta' = folded.meta
           ELSE UNCHANGED << fo_names, fo_content, fo_meta >>
    /\ fo_pc' = "overview"
    /\ UNCHANGED << fo_content0, fo_meta0 >>
    /\ UNCHANGED << ov_pc, ov_numbers, ov_percentages, ov_raw, ov_verticals, ov_panicked >>
    /\ UNCHANGED << shared, coord, workers, hist, mvars, clvars >>

FoldNext == SortNames \/ FoldOverview

FoldSpec == FoldInit /\ [][FoldNext]_vars

\* ------------------------------------------------------------------
\* the bars were computed from percentages / by either way
BarsFromPercentages == ov_pc = "verticals" /\ ov_numbers # <<>>
BarsDone == ov_pc = "verticals"

Abs(x) == IF x < 0 THEN -x ELSE x

\* C22: the bars get_num_of_verticals returns sum to 50; where the bars
\* before normalisation did not, every entry stayed at its place and moved
\* only towards the missing amount, and the moves add up to the difference.
C22_BarsSumToFifty ==
    /\ BarsFromPercentages => SeqSum(ov_verticals) = NUM_OF_VERTICALS
    /\ BarsDone =>
         LET diff == NUM_OF_VERTICALS - SeqSum(ov_raw)
         IN  /\ Len(ov_verticals) = Len(ov_raw)
             /\ SeqSum(ov_verticals) = NUM_OF_VERTICALS
             /\ \A i \in 1 .. Len(ov_raw) :
                  /\ diff >= 0 => ov_verticals[i] >= ov_raw[i]
                  /\ diff <= 0 => ov_verticals[i] <= ov_raw[i]
             /\ SeqSum([i \in 1 .. Len(ov_raw) |-> Abs(ov_verticals[i] - ov_raw[i])]) = Abs(diff)

\* 18, 15, 19, 1 (sum 53) becomes 16, 15, 18, 1
C22_Witness ==
    /\ ov_pc = "verticals"
    /\ ov_raw = << 18, 15, 19, 1 >>
    /\ ov_verticals = << 16, 15, 18, 1 >>

\* C23: in the bars get_num_of_verticals returns, a percentage of 0 has no
\* bar and a percentage above 0 has at least one; no subtraction went below
\* zero.
C23_BarsMatchPercentages ==
    /\ ~ov_panicked
    /\ BarsFromPercentages =>
         \A i \in 1 .. Len(ov_percentages) :
           /\ ov_percentages[i] = 0 => ov_verticals[i] = 0
           /\ ov_percentages[i] > 0 => ov_verticals[i] >= 1

\* 0.1 %, 0.1 %, 0 %, 99.8 %: 1, 1, 0, 50 bars, normalised to 1, 1, 0, 48
C23_Witness ==
    /\ ov_pc = "verticals"
    /\ ov_percentages = << 1, 1, 0, 998 >>
    /\ ov_raw = << 1, 1, 0, 50 >>
    /\ ov_verticals = << 1, 1, 0, 48 >>

\* C24: for counts with a positive total there is one percentage per count,
\* at the place of its name; each but the last is the nearest tenth of a
\* percent to the count's share, the last is 100 less the others, or 0 when
\* the others sum to more than 99.89; none is negative.
C24_Percentages ==
    (ov_pc \in {"percentages", "verticals"} /\ ov_numbers # <<>> /\ SeqSum(ov_numbers) > 0) =>
        LET n == Len(ov_numbers)
            total == SeqSum(ov_numbers)
            counts == CountsMap(ov_numbers)
            others == SumOver(ov_percentages, 1 .. (n - 1))
        IN  /\ Len(ov_percentages) = n
            /\ \A i \in 1 .. (n - 1) :
                 /\ 2 * total * ov_percentages[i] - 2000 * counts[OverviewNames[i]] <= total
                 /\ 2000 * counts[OverviewNames[i]] - 2 * total * ov_percentages[i] < total
            /\ ov_percentages[n] = IF others * 10 > 9989 THEN 0 ELSE 1000 - others
            /\ \A i \in 1 .. n : ov_percentages[i] >= 0

\* 1, 1, 4, 0: the first three round to 16.7, 16.7 and 66.7, over 100; the last is 0
C24_Witness ==
    /\ ov_pc = "percentages"
    /\ ov_numbers = << 1, 1, 4, 0 >>
    /\ ov_percentages = << 167, 167, 667, 0 >>

\* ------------------------------------------------------------------
\* format!("{:.1}", percent).len() in create_overview_line: the digits
\* before the point, the point and one decimal; "NaN" for 0/0
str_perc_len(percent) ==
    IF percent = NaN THEN 3
    ELSE IF percent < 100 THEN 3
    ELSE IF percent < 1000 THEN 4
    ELSE 5

\* C26: every percentage of the overview has a text of at most 4 characters,
\* so that 4 - str_perc.len() is not negative.
C26_PaddingNeverNegative ==
    (ov_pc \in {"percentages", "verticals"} /\ ov_numbers # <<>>) =>
        \A i \in 1 .. Len(ov_percentages) : 4 - str_perc_len(ov_percentages[i]) >= 0

\* what holds instead: the padding is negative exactly for 100.0 %
C26_PaddingNegativeAtHundred ==
    (ov_pc \in {"percentages", "verticals"} /\ ov_numbers # <<>>) =>
        \A i \in 1 .. Len(ov_percentages) :
            4 - str_perc_len(ov_percentages[i]) < 0 <=> ov_percentages[i] = 1000

\* ------------------------------------------------------------------
\* the overview was given more than four extensions and has folded them
Folded == fo_pc = "overview" /\ Cardinality(DOMAIN fo_content0) > 4

\* the entries the fold dropped
Dropped == DOMAIN fo_meta0 \ { fo_names[i] : i \in 1 .. 3 }

\* the three highest-ranked extensions are kept as they were, "others" is
\* added last with the totals of the dropped ones, both maps hold exactly the
\* four names, and the totals of files, lines and bytes are as before
FoldKeepsTotals ==
    /\ Len(fo_names) = 4
    /\ fo_names[4] = "others"
    /\ Cardinality(Range(fo_names)) = 4
    /\ DOMAIN fo_content = Range(fo_names)
    /\ DOMAIN fo_meta = Range(fo_names)
    /\ \A i \in 1 .. 3 :
         /\ fo_names[i] \in DOMAIN fo_meta0
         /\ fo_meta[fo_names[i]] = fo_meta0[fo_names[i]]
         /\ fo_content[fo_names[i]] = fo_content0[fo_names[i]]
         /\ \A d \in Dropped : SortValue(fo_meta0[fo_names[i]]) >= SortValue(fo_meta0[d])
    /\ fo_meta["others"].files = SumOver([e \in Dropped |-> fo_meta0[e].files], Dropped)
    /\ fo_meta["others"].bytes = SumOver([e \in Dropped |-> fo_meta0[e].bytes], Dropped)
    /\ fo_content["others"].lines = SumOver([e \in Dropped |-> fo_content0[e].lines], Dropped)
    /\ get_files_lines_size(fo_content, fo_meta) = get_files_lines_size(fo_content0, fo_meta0)

\* C25: when more than four extensions reach the overview, the fold keeps
\* the three highest-ranked, adds "others" with the totals of the rest, and
\* preserves the totals of files, lines and bytes.
C25_FoldKeepsTotals == Folded => FoldKeepsTotals

\* what holds instead: the same, when no extension is itself called "others"
C25_FoldKeepsTotalsUnlessNamedOthers ==
    (Folded /\ "others" \notin DOMAIN fo_meta0) => FoldKeepsTotals

\* five extensions folded to three and "others"
C25_FoldReached ==
    /\ Folded
    /\ "others" \notin DOMAIN fo_meta0
    /\ fo_names = << "java", "py", "c", "others" >>
    /\ fo_meta["others"] = [files |-> 2, bytes |-> 10]

\* ------------------------------------------------------------------
\* the corrected file count of extension e
CorrectedFiles(e) == WalkerRecorded(e).files - Cardinality(FaultyOfExt(e))

\* C27: what reaches the report of a successful run: at least one extension,
\* each with files >= 1, the same extensions in both maps, namely those
\* whose corrected file count is not 0; so bytes / files, total_bytes /
\* total_files and the maximum of the file counts are defined.
C27_ReportHasFiles ==
    rendered >= 1 =>
        /\ outcome.kind = "Ok"
        /\ DOMAIN extensions_metadata # {}
        /\ DOMAIN extensions_content_info = DOMAIN extensions_metadata
        /\ DOMAIN extensions_metadata = { e \in Exts : CorrectedFiles(e) # 0 }
        /\ \A e \in DOMAIN extensions_metadata : extensions_metadata[e].files >= 1
        /\ SumOver([e \in DOMAIN extensions_metadata |-> extensions_metadata[e].files],
                   DOMAIN extensions_metadata) >= 1

\* the only file of y was unreadable: y is gone from the report, x has its file
C27_Witness ==
    /\ rendered = 1
    /\ WalkerRecorded("y").files = 1
    /\ Cardinality(FaultyOfExt("y")) = 1
    /\ DOMAIN extensions_metadata = {"x"}
    /\ extensions_metadata["x"].files = 2

\* ------------------------------------------------------------------
\* C28: the code lines of a FileStats never exceed its lines, a step of the
\* classifier adds no more code lines than lines, and after any number of
\* merges the code lines of every extension's entry do not exceed its lines,
\* so that lines - code_lines is not negative.
C28_CodeLinesWithinLines ==
    /\ [](cl_stats.lines - cl_stats.code_lines >= 0)
    /\ [](\A e \in DOMAIN extensions_content_info :
            extensions_content_info[e].lines - extensions_content_info[e].code_lines >= 0)
    /\ [][cl_stats'.lines >= cl_stats.lines =>
            /\ cl_stats'.code_lines >= cl_stats.code_lines
            /\ cl_stats'.code_lines - cl_stats.code_lines
                 <= cl_stats'.lines - cl_stats.lines]_vars

\* two files merged, four lines of which three are code lines, while a third
\* file is finished
C28_Witness ==
    /\ FilesMerged = 2
    /\ cl_ext = "x"
    /\ extensions_content_info["x"].lines = 4
    /\ extensions_content_info["x"].code_lines = 3
    /\ cl_done
    /\ cl_stats.lines = 2
    /\ cl_stats.code_lines = 0

\* ------------------------------------------------------------------
\* C29: a run that ends in "no relevant files" or "all faulty" has returned,
\* has rendered nothing, and leaves ExtensionMetadata as the walker recorded
\* it and the content info as it was made; once run() has returned nothing
\* changes its outcome or the two maps; the results are rendered at most
\* once, by the step that gives Ok, and from the corrected metadata.
C29_FailureIsTerminal ==
    /\ [](outcome.kind \in {"NoRelevantFiles", "AllAreFaultyFiles"} =>
            /\ c_pc = "returned"
            /\ rendered = 0
            /\ \A e \in Exts : extensions_metadata[e] = WalkerRecorded(e)
            /\ extensions_content_info = make_extension_stats(ExtensionsMap))
    /\ [](rendered <= 1 /\ (rendered = 1 <=> outcome.kind = "Ok"))
    /\ [][c_pc = "returned" =>
            UNCHANGED << c_pc, outcome, rendered, extensions_metadata,
                         extensions_content_info >>]_vars
    /\ [][rendered' # rendered =>
            /\ rendered = 0 /\ rendered' = 1
            /\ c_pc = "render"
            /\ outcome'.kind = "Ok"
            /\ \A e \in Exts :
                 /\ extensions_metadata[e].files = CorrectedFiles(e)
                 /\ extensions_metadata[e].bytes = WalkerRecorded(e).bytes - FaultyBytes(e)]_vars

\* "all faulty" for one file of each extension: the metadata still counts them
C29_Witness ==
    /\ outcome.kind = "AllAreFaultyFiles"
    /\ rendered = 0
    /\ Cardinality(FaultyOfExt("x")) = 1
    /\ Cardinality(FaultyOfExt("y")) = 1
    /\ extensions_metadata["x"].files = 1
    /\ extensions_metadata["y"].files = 1

====
